---- MODULE Spec2Model ----
(***************************************************************************)
(* A model of src/getTDPSDfeatv3.py: the sliding-window feature extractor  *)
(* getTDPSDfeatv3 and the moment extractor KSM1.                           *)
(*                                                                         *)
(* Arrays are records [r, c, v]: r rows, c columns, v the elements indexed *)
(* from 0 as in Python.  Sample values are symbolic scalars [f, v]: f      *)
(* names the elementwise transform applied so far ("id" for a raw sample,  *)
(* "logsq" for log(v**2 + spacing(1))), v is the raw integer sample.  The  *)
(* six features KSM1 computes are functions of one column of the oriented  *)
(* window only (every reduction in KSM1 is along axis 0), so a feature is  *)
(* the term [name, col]: the feature's name and the column it is computed  *)
(* from.  The floating-point arithmetic of the combine step is modelled    *)
(* separately on integers rounded to MantBits significant bits.            *)
(*                                                                         *)
(* np.int (line 59) is read as the builtin int, which it aliases in the    *)
(* numpy releases the file was written for.                                *)
(***************************************************************************)
EXTENDS Integers, Sequences, FiniteSets, TLC

\* ---------------------------------------------------------------- bounds
MaxRows == 6
MaxCols == 2
MaxVal == 1
MaxNeg == 1
MaxParam == 4

Vals == 0..MaxVal
ParamVals == (0 - MaxNeg)..MaxParam

NFPC == 6

None == [r |-> -1, c |-> -1, v |-> <<>>]

\* ------------------------------------------------------------ array helpers
Idx(r, c) == (0..(r - 1)) \X (0..(c - 1))

\* the 2D integer signals of the model: r rows (time), c columns (channels),
\* sample (t, ch) = 1 + a*t + b*ch.  a = b = 0 is a constant signal, a = b a
\* symmetric one, and with a # b, both > 0, the samples of a small signal
\* are all different.
Signals ==
  { [r |-> r, c |-> c, v |-> [p \in Idx(r, c) |-> 1 + a * p[1] + b * p[2]]] :
      <<r, c, a, b>> \in (0..MaxRows) \X (0..MaxCols) \X Vals \X Vals }

\* the sliding parameters a caller may pass after the signal
ParamLists ==
  {<<>>} \cup { <<w>> : w \in ParamVals }
         \cup { <<w, inc>> : <<w, inc>> \in ParamVals \X ParamVals }
         \cup { <<w, inc, 0>> : <<w, inc>> \in ParamVals \X ParamVals }

Raw(v) == [f |-> "id", v |-> v]

\* np.array(x): a fresh array holding a copy of the caller's data
NpArray(x) == [r |-> x.r, c |-> x.c, v |-> [p \in Idx(x.r, x.c) |-> Raw(x.v[p])]]

\* Python's normalisation of a slice bound k against a length n (step 1)
SliceBound(k, n) ==
  IF k < 0 THEN (IF k + n < 0 THEN 0 ELSE k + n)
           ELSE (IF k > n THEN n ELSE k)

\* the row indices x[st:en, :] selects from an array of n rows
SliceRows(st, en, n) ==
  { t \in 0..(n - 1) : SliceBound(st, n) <= t /\ t < SliceBound(en, n) }

\* x[st:en + 1, :]: the end bound taken as inclusive
SliceInclusiveEnd(M, st, en) ==
  LET lo == SliceBound(st, M.r)
      hi == SliceBound(en + 1, M.r)
      n  == IF hi > lo THEN hi - lo ELSE 0
  IN [r |-> n, c |-> M.c,
      v |-> [p \in Idx(n, M.c) |-> M.v[<<lo + p[1], p[2]>>]]]

\* x[st:en, :]
Slice(M, st, en) ==
  LET lo == SliceBound(st, M.r)
      hi == SliceBound(en, M.r)
      n  == IF hi > lo THEN hi - lo ELSE 0
  IN [r |-> n, c |-> M.c,
      v |-> [p \in Idx(n, M.c) |-> M.v[<<lo + p[1], p[2]>>]]]

\* np.transpose(S)
Transpose(S) ==
  [r |-> S.c, c |-> S.r,
   v |-> [p \in Idx(S.c, S.r) |-> S.v[<<p[2], p[1]>>]]]

\* np.log(curwin**2 + np.spacing(1)): a new array, elementwise
LogSq(W) ==
  [r |-> W.r, c |-> W.c,
   v |-> [p \in Idx(W.r, W.c) |-> [f |-> "logsq", v |-> W.v[p].v]]]

Abs(z) == IF z < 0 THEN 0 - z ELSE z

\* int(a / b): truncation toward zero instead of np.floor
TruncDiv(a, b) ==
  LET q == Abs(a) \div Abs(b)
  IN IF (a < 0) # (b < 0) THEN 0 - q ELSE q

\* floor(a / b) for b # 0
FloorDiv(a, b) == IF b > 0 THEN a \div b ELSE (0 - a) \div (0 - b)

\* ------------------------------------------------------------------ KSM1
\* column ch of an oriented window, as the sequence of its samples in time
Column(S, ch) == [t \in 1..S.r |-> S.v[<<t - 1, ch>>]]

\* transposing whatever the shape
OrientAlways(S) == Transpose(S)

\* lines 107-109 left out
OrientNever(S) == S

\* lines 104-109: transpose exactly when there are more columns than rows
Orient(S) == IF S.c > S.r THEN Transpose(S) ELSE S

\* one of the six per-channel quantities of lines 111-134, each a (channels, 1)
\* array: entry ch is the quantity `name` of column ch
PerChannel(name, S) ==
  [ch \in 1..S.c |-> [fn |-> "id", name |-> name, col |-> Column(S, ch - 1)]]

\* the order of the np.concatenate of line 136
FeatNames == <<"m0", "m0-m2", "m0-m4", "sparsi", "IRF", "WLR">>

\* np.concatenate(..., axis=1) flattened: the six quantities of channel 0,
\* then those of channel 1, ...
Concatenate1(blocks, channels) ==
  [k \in 1..(Len(blocks) * channels) |->
     blocks[((k - 1) % Len(blocks)) + 1][((k - 1) \div Len(blocks)) + 1]]

\* np.concatenate(six (channels, 1) arrays, axis=0): a (6*channels, 1) array,
\* block f holding quantity f of every channel
Concatenate0(blocks, channels) ==
  [k \in 1..(Len(blocks) * channels) |->
     blocks[((k - 1) \div channels) + 1][((k - 1) % channels) + 1]]

\* np.log(np.abs(Feat)).flatten() of a (n, 1) array: elementwise, same order
LogAbsFlatten(F) ==
  [k \in 1..Len(F) |-> [fn |-> "logabs", name |-> F[k].name, col |-> F[k].col]]

KSM1(S0) ==
  LET S == Orient(S0)
      channels == S.c
      blocks == [f \in 1..NFPC |-> PerChannel(FeatNames[f], S)]
  IN IF channels = 0 THEN <<>>
     ELSE LogAbsFlatten(Concatenate0(blocks, channels))

\* ------------------------------------------------------- the combine step
NoTerm == [fn |-> "none", name |-> "", col |-> <<>>]

\* an element of np.zeros(...)
ZeroEntry == [op |-> "zero", efp |-> NoTerm, ebp |-> NoTerm]

\* lines 77-81 on two equally long vectors: entry k is num[k] - den[k], with
\* num = -2*efp*ebp and den = efp*efp + ebp*ebp, all elementwise
CombineRow(efp, ebp) ==
  [k \in 1..Len(efp) |-> [op |-> "num-den", efp |-> efp[k], ebp |-> ebp[k]]]

\* numpy's rule for feat[i,:] = value: a vector of length len fits a row of
\* length m when the lengths agree or the vector has one element
CanBroadcast(len, m) == len = m \/ len = 1

Broadcast(row, m) == IF Len(row) = m THEN row ELSE [k \in 1..m |-> row[1]]

\* np.zeros((n, m))
Zeros(n, m) == [r |-> n, c |-> m, rows |-> [k \in 0..(n - 1) |-> [j \in 1..m |-> ZeroEntry]]]

NoFeat == [r |-> -1, c |-> -1, rows |-> <<>>]

\* the row lines 70-81 compute from the window x[st:en, :]
WindowRow(X, st, en) ==
  LET curwin == Slice(X, st, en)
      ebp == KSM1(curwin)
      efp == KSM1(LogSq(curwin))
  IN CombineRow(efp, ebp)

\* what `np.log(np.square(curwin, out=curwin), out=curwin)` would leave in
\* the local array: the window's rows overwritten through the view
LocalWrittenInPlace(X, st, en) ==
  [r |-> X.r, c |-> X.c,
   v |-> [p \in Idx(X.r, X.c) |->
            IF p[1] \in SliceRows(st, en, X.r)
              THEN [f |-> "logsq", v |-> X.v[p].v] ELSE X.v[p]]]

\* the local array after lines 70-81: curwin is a view that is only read;
\* curwin**2, the sum with spacing(1), the log and everything in KSM1 are new
\* arrays, and line 81 writes feat
LocalAfterWindow(X, st, en) == X

\* ------------------------------------------------------------------ state
VARIABLES
  x,              \* the caller's signal object
  slidingParams,  \* the caller's *slidingParams
  pc,             \* position of the call: entry, argcheck, shape, alloc, loop, done, raised
  xl,             \* the local x after line 48
  winsize, wininc, datasize, Nsignals, numwin,
  feat, st, en, i,
  err,            \* the exception raised, or "none"
  ret,            \* the returned array, or NoFeat
  again,          \* TRUE once the caller has called again on the same object
  kS, kOut, kOutT, kpc,              \* KSM1 applied on its own
  cEfp, cEbp, cNum, cDen, cOut, cpc  \* the combine step applied on its own

callvars == <<x, slidingParams, pc, xl, winsize, wininc, datasize, Nsignals, numwin,
              feat, st, en, i, err, ret, again>>
ksmvars == <<kS, kOut, kOutT, kpc>>
combvars == <<cEfp, cEbp, cNum, cDen, cOut, cpc>>

vars == <<callvars, ksmvars, combvars>>

locals == <<winsize, wininc, datasize, Nsignals, numwin, feat, st, en, i>>

CallIdle ==
  /\ x = None /\ slidingParams = <<>> /\ pc = "off" /\ xl = None
  /\ winsize = 0 /\ wininc = 0 /\ datasize = 0 /\ Nsignals = 0 /\ numwin = 0
  /\ feat = NoFeat /\ st = 0 /\ en = 0 /\ i = 0
  /\ err = "none" /\ ret = NoFeat /\ again = FALSE

KsmIdle == kS = None /\ kOut = <<>> /\ kOutT = <<>> /\ kpc = "off"

CombIdle == cEfp = 0 /\ cEbp = 0 /\ cNum = 0 /\ cDen = 0 /\ cOut = 0 /\ cpc = "off"

Init ==
  /\ KsmIdle /\ CombIdle
  /\ x \in Signals
  /\ slidingParams \in ParamLists
  /\ pc = "entry"
  /\ xl = None
  /\ winsize = 0 /\ wininc = 0 /\ datasize = 0 /\ Nsignals = 0 /\ numwin = 0
  /\ feat = NoFeat /\ st = 0 /\ en = 0 /\ i = 0
  /\ err = "none"
  /\ ret = NoFeat
  /\ again = FALSE

\* the window length forgotten in the count
NumwinNoWinsize(rows, wsize, winc) == FloorDiv(rows, winc) + 1

\* line 59 (wininc # 0)
Numwin(rows, wsize, winc) == FloorDiv(rows - wsize, winc) + 1

\* a third parameter demanded
TooFewParamsOff(params) == Len(params) < 3

\* the condition of line 51
TooFewParams(params) == Len(params) < 2

\* line 48
Enter ==
  /\ pc = "entry"
  /\ xl' = NpArray(x)
  /\ pc' = "argcheck"
  /\ UNCHANGED <<x, slidingParams, locals, err, ret, again>>

\* lines 51-52
ArgCountRaise ==
  /\ pc = "argcheck"
  /\ TooFewParams(slidingParams)
  /\ err' = "TypeError"
  /\ pc' = "raised"
  /\ UNCHANGED <<x, slidingParams, xl, locals, ret, again>>

\* lines 53-58
BindParams ==
  /\ pc = "argcheck"
  /\ ~TooFewParams(slidingParams)
  /\ winsize' = slidingParams[1]
  /\ wininc' = slidingParams[2]
  /\ datasize' = xl.r
  /\ Nsignals' = xl.c
  /\ pc' = "shape"
  /\ UNCHANGED <<x, slidingParams, xl, numwin, feat, st, en, i, err, ret, again>>

\* line 59 with wininc = 0: the division raises
NumwinRaise ==
  /\ pc = "shape"
  /\ wininc = 0
  /\ err' = "ZeroDivisionError"
  /\ pc' = "raised"
  /\ UNCHANGED <<x, slidingParams, xl, locals, ret, again>>

\* lines 59-60
ComputeNumwin ==
  /\ pc = "shape"
  /\ wininc # 0
  /\ numwin' = Numwin(datasize, winsize, wininc)
  /\ pc' = "alloc"
  /\ UNCHANGED <<x, slidingParams, xl, winsize, wininc, datasize, Nsignals,
                 feat, st, en, i, err, ret, again>>

\* line 63 with numwin < 0: np.zeros rejects a negative dimension
AllocRaise ==
  /\ pc = "alloc"
  /\ numwin < 0
  /\ err' = "ValueError"
  /\ pc' = "raised"
  /\ UNCHANGED <<x, slidingParams, xl, locals, ret, again>>

\* lines 63-66
Allocate ==
  /\ pc = "alloc"
  /\ numwin >= 0
  /\ feat' = Zeros(numwin, Nsignals * NFPC)
  /\ st' = 0
  /\ en' = winsize
  /\ i' = 0
  /\ pc' = "loop"
  /\ UNCHANGED <<x, slidingParams, xl, winsize, wininc, datasize, Nsignals,
                 numwin, err, ret, again>>

\* lines 68-83, one iteration whose row fits
LoopStep ==
  /\ pc = "loop"
  /\ i < numwin
  /\ LET row == WindowRow(xl, st, en)
     IN /\ CanBroadcast(Len(row), feat.c)
        /\ feat' = [feat EXCEPT !.rows[i] = Broadcast(row, feat.c)]
  /\ xl' = LocalAfterWindow(xl, st, en)
  /\ st' = st + wininc
  /\ en' = en + wininc
  /\ i' = i + 1
  /\ UNCHANGED <<x, slidingParams, pc, winsize, wininc, datasize, Nsignals,
                 numwin, err, ret, again>>

\* lines 68-81, an iteration whose row does not fit: line 81 raises
StoreRaise ==
  /\ pc = "loop"
  /\ i < numwin
  /\ ~CanBroadcast(Len(WindowRow(xl, st, en)), feat.c)
  /\ err' = "ValueError"
  /\ pc' = "raised"
  /\ UNCHANGED <<x, slidingParams, xl, locals, ret, again>>

\* line 85
Return ==
  /\ pc = "loop"
  /\ ~(i < numwin)
  /\ ret' = feat
  /\ pc' = "done"
  /\ UNCHANGED <<x, slidingParams, xl, locals, err, again>>

\* the caller calls again with the same input object and parameters
CallAgain ==
  /\ pc \in {"done", "raised"}
  /\ again' = TRUE
  /\ pc' = "entry"
  /\ xl' = None
  /\ winsize' = 0 /\ wininc' = 0 /\ datasize' = 0 /\ Nsignals' = 0 /\ numwin' = 0
  /\ feat' = NoFeat /\ st' = 0 /\ en' = 0 /\ i' = 0
  /\ err' = "none"
  /\ ret' = NoFeat
  /\ UNCHANGED <<x, slidingParams>>

Call ==
  \/ Enter
  \/ ArgCountRaise
  \/ BindParams
  \/ NumwinRaise
  \/ ComputeNumwin
  \/ AllocRaise
  \/ Allocate
  \/ LoopStep
  \/ StoreRaise
  \/ Return
  \/ CallAgain

Next == Call /\ UNCHANGED <<ksmvars, combvars>>

Spec == Init /\ [][Next]_vars

\* ------------------------------------------------- KSM1 applied on its own
\* the windows KSM1 is given: a slice of the local array or its LogSq
KsmInputs == { NpArray(S) : S \in Signals } \cup { LogSq(NpArray(S)) : S \in Signals }

InitKSM ==
  /\ CallIdle /\ CombIdle
  /\ kS \in KsmInputs
  /\ kOut = <<>> /\ kOutT = <<>>
  /\ kpc = "start"

\* KSM1(S)
ApplyKSM1 ==
  /\ kpc = "start"
  /\ kOut' = KSM1(kS)
  /\ kpc' = "direct"
  /\ UNCHANGED <<kS, kOutT>>

\* KSM1(np.transpose(S))
ApplyKSM1Transposed ==
  /\ kpc = "direct"
  /\ kOutT' = KSM1(Transpose(kS))
  /\ kpc' = "both"
  /\ UNCHANGED <<kS, kOut>>

NextKSM == (ApplyKSM1 \/ ApplyKSM1Transposed) /\ UNCHANGED <<callvars, combvars>>

SpecKSM == InitKSM /\ [][NextKSM]_vars

\* ------------------------------------------------------- claims: the call
Supplied == Len(slidingParams) >= 2
P1 == slidingParams[1]
P2 == slidingParams[2]
Ended == pc \in {"done", "raised"}

\* the inputs the specification calls valid
ValidIn == Supplied /\ P1 >= 1 /\ P2 >= 1 /\ P1 <= x.r

\* q = floor(a / b), stated without dividing
IsFloor(q, a, b) ==
  IF b > 0 THEN b * q <= a /\ a < b * q + b
           ELSE b * q >= a /\ a > b * q + b

Span == MaxRows + MaxParam + MaxNeg + 1

\* floor((rows - winsize) / wininc) + 1 of the call's inputs (wininc # 0)
ExpNumwin == CHOOSE n \in (0 - Span)..Span : IsFloor(n - 1, x.r - P1, P2)

\* the rows [k*wininc, k*wininc + winsize) of the caller's signal
ExpWindow(k) ==
  [r |-> P1, c |-> x.c,
   v |-> [p \in Idx(P1, x.c) |-> Raw(x.v[<<k * P2 + p[1], p[2]>>])]]

ExpRow(k) == CombineRow(KSM1(LogSq(ExpWindow(k))), KSM1(ExpWindow(k)))

WellShaped(F, n, m) ==
  /\ F.r = n /\ F.c = m
  /\ DOMAIN F.rows = 0..(n - 1)
  /\ \A k \in 0..(n - 1) : Len(F.rows[k]) = m

\* C1: for every valid input (winsize, wininc >= 1, winsize <= rows), also
\* with winsize < channels, the call returns a matrix of numwin rows and
\* channels*6 columns.
C1_ShapeForAllValid ==
  (ValidIn /\ Ended) => (pc = "done" /\ WellShaped(ret, ExpNumwin, x.c * NFPC))

\* C2: with fewer than two sliding parameters the call raises the argument
\* error before anything is allocated or any window processed and returns
\* nothing; with two or more the argument check never raises.
C2_ArgCount ==
  /\ (~Supplied /\ pc \notin {"entry", "argcheck"}) =>
        (pc = "raised" /\ err = "TypeError" /\ ret = NoFeat /\ feat = NoFeat /\ i = 0)
  /\ Supplied => err # "TypeError"

C2_Witness == pc = "raised" /\ err = "TypeError" /\ Len(slidingParams) = 1

C2_WitnessSupplied == pc = "done" /\ Len(slidingParams) = 3

\* C3: on valid inputs every output row written so far, row k, is the row
\* computed from signal rows [k*wininc, k*wininc + winsize) of the caller's
\* signal, so rows are in window order.
C3_RowFromItsWindow ==
  (ValidIn /\ pc \in {"loop", "done"}) =>
     \A k \in 0..(i - 1) : feat.rows[k] = ExpRow(k)

C3_Witness ==
  /\ ValidIn /\ pc = "done" /\ x.r = 6 /\ x.c = 1 /\ P1 = 4 /\ P2 = 2
  /\ ret.r = 2
  /\ [t \in 1..6 |-> x.v[<<t - 1, 0>>]] = <<1, 2, 3, 4, 5, 6>>
  /\ ret.rows[0][1].ebp.col = <<Raw(1), Raw(2), Raw(3), Raw(4)>>
  /\ ret.rows[1][1].ebp.col = <<Raw(3), Raw(4), Raw(5), Raw(6)>>
  /\ ret.rows[1][1].efp.col[1] = [f |-> "logsq", v |-> 3]

\* C4 as claimed: whenever numwin evaluates to zero or to a negative number
\* the call returns a matrix with zero rows.
C4_ZeroRowsWhenNonPositive ==
  (Supplied /\ P2 # 0 /\ Ended /\ ExpNumwin <= 0) => (pc = "done" /\ ret.r = 0)

\* C4 amended: numwin = 0 returns a matrix with zero rows (and channels*6
\* columns); numwin < 0 raises at the allocation and returns nothing.
C4_ZeroReturnsNegativeRaises ==
  (Supplied /\ P2 # 0 /\ Ended) =>
     /\ ExpNumwin = 0 => (pc = "done" /\ WellShaped(ret, 0, x.c * NFPC))
     /\ ExpNumwin < 0 => (pc = "raised" /\ err = "ValueError" /\ ret = NoFeat)

C4_Witness == pc = "done" /\ ret.r = 0 /\ P1 > x.r /\ P2 > 0

\* the number of rows x[k*wininc : k*wininc + winsize, :] has
WindowLen(k) == Cardinality(SliceRows(k * P2, k * P2 + P1, x.r))

\* C5 as claimed: once two parameters are supplied the call never raises.
C5_NeverRaisesWhenSupplied == Supplied => pc # "raised"

\* C5 amended: with two parameters supplied the call raises exactly when
\* wininc = 0, or numwin < 0, or some window has fewer rows than the signal
\* has columns; in every other case it returns.
C5_RaisesExactlyWhen ==
  (Supplied /\ Ended) =>
     ((pc = "raised") <=>
        \/ P2 = 0
        \/ (P2 # 0 /\ ExpNumwin < 0)
        \/ (P2 # 0 /\ \E k \in 0..(ExpNumwin - 1) : WindowLen(k) < x.c))

C5_Witness == pc = "done" /\ Supplied /\ P2 < 0 /\ P1 > x.r /\ ret.r >= 2 /\ x.c >= 1

\* C6: no call, returning or raising, and no sequence of calls changes the
\* caller's signal; the local copy is never written either.
C6_InputNeverWritten ==
  /\ [](xl # None => xl = NpArray(x))
  /\ [][x' = x]_vars

C6_Witness == again /\ pc = "done" /\ ret.r >= 2 /\ x.c >= 1

\* C9: on valid inputs, at the start of iteration i the cursors are
\* st = i*wininc and en = st + winsize <= datasize, the slice has winsize
\* rows, and when the loop has run out st + winsize > datasize.
C9_WindowBounds ==
  (ValidIn /\ pc = "loop") =>
     /\ st = i * wininc /\ en = st + winsize
     /\ i < numwin =>
           (en <= datasize /\ Slice(xl, st, en).r = winsize
              /\ SliceRows(st, en, datasize) = st..(en - 1))
     /\ ~(i < numwin) => st + winsize > datasize

C9_Witness ==
  /\ ValidIn /\ pc = "loop" /\ ~(i < numwin) /\ i >= 3 /\ wininc >= 1 /\ winsize >= 2

\* --------------------------------------- the combine step in floating point
\* Floats are modelled as the integers with at most MantBits significant
\* bits (numpy's float64 has 53); every arithmetic result is rounded to the
\* nearest such number, ties to even, as IEEE 754 does.
MantBits == 3
MaxFloat == 14

RECURSIVE BitLen(_)
BitLen(n) == IF n = 0 THEN 0 ELSE 1 + BitLen(n \div 2)

RECURSIVE Pow2(_)
Pow2(k) == IF k = 0 THEN 1 ELSE 2 * Pow2(k - 1)

Fl(z) ==
  LET m == Abs(z)
      e == BitLen(m) - MantBits
  IN IF e <= 0 THEN z
     ELSE LET q   == Pow2(e)
              lo  == (m \div q) * q
              rem == m - lo
              r   == IF 2 * rem < q THEN lo
                     ELSE IF 2 * rem > q THEN lo + q
                     ELSE IF (lo \div q) % 2 = 0 THEN lo ELSE lo + q
          IN IF z < 0 THEN 0 - r ELSE r

Floats == { z \in (0 - MaxFloat)..MaxFloat : Fl(z) = z }

\* np.multiply on one element
Multiply(a, b) == Fl(a * b)

\* the product taken without the minus sign
NumPlus(efp, ebp) == Fl(2 * Multiply(efp, ebp))

\* line 77
Num(efp, ebp) == Fl((0 - 2) * Multiply(efp, ebp))

\* line 78
Den(efp, ebp) == Fl(Multiply(efp, efp) + Multiply(ebp, ebp))

\* line 81
Combine(efp, ebp) == Fl(Num(efp, ebp) - Den(efp, ebp))

InitCombine ==
  /\ CallIdle /\ KsmIdle
  /\ cEfp \in Floats /\ cEbp \in Floats
  /\ cNum = 0 /\ cDen = 0 /\ cOut = 0
  /\ cpc = "num"

StepNum ==
  /\ cpc = "num"
  /\ cNum' = Num(cEfp, cEbp)
  /\ cpc' = "den"
  /\ UNCHANGED <<cEfp, cEbp, cDen, cOut>>

StepDen ==
  /\ cpc = "den"
  /\ cDen' = Den(cEfp, cEbp)
  /\ cpc' = "store"
  /\ UNCHANGED <<cEfp, cEbp, cNum, cOut>>

StepStore ==
  /\ cpc = "store"
  /\ cOut' = Fl(cNum - cDen)
  /\ cpc' = "stored"
  /\ UNCHANGED <<cEfp, cEbp, cNum, cDen>>

NextCombine == (StepNum \/ StepDen \/ StepStore) /\ UNCHANGED <<callvars, ksmvars>>

SpecCombine == InitCombine /\ [][NextCombine]_vars

\* ------------------------------------------------------- claims: KSM1
\* row t of S as a sequence
RowSeq(S, t) == [j \in 1..S.c |-> S.v[<<t, j - 1>>]]

\* C7: for rows # columns KSM1(S) = KSM1(transpose(S)); the columns KSM1
\* works on are the rows of S exactly when rows < columns, and a square S
\* is taken as given.
C7_OrientationInvariance ==
  /\ (kpc = "both" /\ kS.r # kS.c) => kOut = kOutT
  /\ kpc \in {"direct", "both"} =>
        /\ Len(kOut) = NFPC * (IF kS.r < kS.c THEN kS.r ELSE kS.c)
        /\ \A k \in 1..Len(kOut) :
              LET ch == (k - 1) % (Len(kOut) \div NFPC)
              IN kOut[k].col = IF kS.r < kS.c THEN RowSeq(kS, ch) ELSE Column(kS, ch)

C7_Witness ==
  /\ kpc = "both" /\ kS.r = 1 /\ kS.c = 2 /\ kOut = kOutT /\ Len(kOut) = NFPC
  /\ kS.v[<<0, 0>>] # kS.v[<<0, 1>>]

C7_WitnessSquare ==
  /\ kpc = "both" /\ kS.r = 2 /\ kS.c = 2 /\ kOut # kOutT

\* C8: KSM1 returns channels*6 entries, entry f*channels + c being quantity
\* f of channel c, the quantities in the order m0, m0-m2, m0-m4, sparseness,
\* irregularity factor, waveform-length ratio (channels counted after the
\* orientation step).
C8_FeatureMajorLayout ==
  kpc \in {"direct", "both"} =>
     LET channels == IF kS.c > kS.r THEN kS.r ELSE kS.c
         Chan(c) == IF kS.c > kS.r THEN RowSeq(kS, c) ELSE Column(kS, c)
     IN /\ Len(kOut) = channels * 6
        /\ \A f \in 0..5 : \A c \in 0..(channels - 1) :
              kOut[f * channels + c + 1] =
                [fn |-> "logabs",
                 name |-> <<"m0", "m0-m2", "m0-m4", "sparsi", "IRF", "WLR">>[f + 1],
                 col |-> Chan(c)]

C8_Witness ==
  /\ kpc = "direct" /\ kS.r = 3 /\ kS.c = 2 /\ Len(kOut) = 12
  /\ kOut[2].name = "m0" /\ kOut[2].col = Column(kS, 1)
  /\ kOut[3].name = "m0-m2" /\ kOut[3].col = Column(kS, 0)
  /\ Column(kS, 0) # Column(kS, 1)

\* ------------------------------------------------ claims: the combine step
\* every intermediate result of the combine step is computed without rounding
ExactCombine(a, b) ==
  /\ Fl(a * b) = a * b /\ Fl(a * a) = a * a /\ Fl(b * b) = b * b
  /\ Fl(a * a + b * b) = a * a + b * b
  /\ Fl((a + b) * (a + b)) = (a + b) * (a + b)

\* C10 as claimed: every stored entry computed from finite efp and ebp is
\* <= 0 and is the same with efp and ebp swapped.
C10_NeverPositive ==
  cpc = "stored" => (cOut <= 0 /\ cOut = Combine(cEbp, cEfp))

\* C10 amended: the stored entry is the same with efp and ebp swapped; it
\* is <= 0 whenever efp and ebp do not have opposite signs; and when no
\* intermediate result is rounded it equals -(efp + ebp)^2 and is <= 0.
C10_SymmetricAndNonPositiveWhenExact ==
  cpc = "stored" =>
     /\ cOut = Combine(cEbp, cEfp)
     /\ cEfp * cEbp >= 0 => cOut <= 0
     /\ ExactCombine(cEfp, cEbp) =>
           (cOut = 0 - (cEfp + cEbp) * (cEfp + cEbp) /\ cOut <= 0)

C10_Witness ==
  /\ cpc = "stored" /\ cEfp = 2 /\ cEbp = 0 - 1 /\ cNum = 4 /\ cDen = 5 /\ cOut = 0 - 1
  /\ ExactCombine(cEfp, cEbp)

====
